---------------------------- MODULE Spec2Model ----------------------------
(***************************************************************************)
(* A model of the two command-line programs of plex-scripts:               *)
(*   plex_export.py  main() / export_all_libraries_to_csv()                *)
(*   plex_get.py     the `items` command                                   *)
(*                                                                         *)
(* Python values are records tagged by their type, so that the loosely     *)
(* typed attributes of a Plex item (absent, None, of an unexpected type,   *)
(* raising when read) are all inputs of the model.                         *)
(***************************************************************************)
EXTENDS Integers, Sequences, FiniteSets, TLC

(***************************************************************************)
(* Python values                                                           *)
(***************************************************************************)
\* the attribute does not exist: reading it raises AttributeError
Absent == [t |-> "absent"]
\* reading the attribute raises an exception that is not AttributeError
Raises == [t |-> "raise"]
PyNone == [t |-> "none"]
PyInt(n) == [t |-> "int", n |-> n]
PyStr(s) == [t |-> "str", s |-> s]
PyList(l) == [t |-> "list", l |-> l]
\* a float that is a whole number of hundredths (the results of round(x, 2))
PyFloat(h) == [t |-> "float", h |-> h]
\* an object whose __str__ raises
Unprintable == [t |-> "unprintable"]
\* a tag object (genre, director, role), a media grouping, a media part
Tag(v) == [t |-> "obj", tag |-> v]
Media(p) == [t |-> "obj", parts |-> p]
Part(sz) == [t |-> "obj", size |-> sz]

\* the result of an expression: a value, or an exception
Ok(v) == [ok |-> TRUE, v |-> v]
Exc == [ok |-> FALSE]

\* bool(v)
Truthy(v) ==
    CASE v.t = "none" -> FALSE
      [] v.t = "int" -> v.n # 0
      [] v.t = "float" -> v.h # 0
      [] v.t = "str" -> v.s # ""
      [] v.t = "list" -> v.l # <<>>
      [] OTHER -> TRUE

\* getattr(obj, name, default): only AttributeError is replaced by the default
Getattr(obj, name, default) ==
    CASE obj[name].t = "absent" -> Ok(default)
      [] obj[name].t = "raise" -> Exc
      [] OTHER -> Ok(obj[name])

\* hasattr(obj, name): AttributeError gives False, any other exception escapes
Hasattr(obj, name) ==
    CASE obj[name].t = "absent" -> Ok(FALSE)
      [] obj[name].t = "raise" -> Exc
      [] OTHER -> Ok(TRUE)

\* obj.name
Attr(obj, name) ==
    IF obj[name].t \in {"absent", "raise"} THEN Exc ELSE Ok(obj[name])

(***************************************************************************)
(* Strings                                                                 *)
(***************************************************************************)
RECURSIVE Replace(_, _, _)
\* s.replace(old, new) for a one-character old
Replace(s, old, new) ==
    IF Len(s) = 0 THEN ""
    ELSE (IF SubSeq(s, 1, 1) = old THEN new ELSE SubSeq(s, 1, 1))
         \o Replace(SubSeq(s, 2, Len(s)), old, new)

RECURSIVE Join(_, _)
\* sep.join(strs), strs a sequence of strings
Join(sep, strs) ==
    IF strs = <<>> THEN ""
    ELSE IF Len(strs) = 1 THEN strs[1]
    ELSE strs[1] \o sep \o Join(sep, Tail(strs))

\* lst[:n]
Slice(lst, n) == SubSeq(lst, 1, IF Len(lst) < n THEN Len(lst) ELSE n)


(***************************************************************************)
(* plex_export.py: building one row                                        *)
(***************************************************************************)
fieldnames ==
    << "library_key", "library_name", "library_type", "title", "type", "year",
       "rating_key", "duration_minutes", "file_size_mb", "added_at",
       "updated_at", "view_count", "summary", "genres", "directors", "actors",
       "studio", "content_rating", "rating", "guid" >>

\* the slice [:5] of the actors
ACTOR_LIMIT == 5
\* library_items % 100 == 0
PROGRESS_EVERY == 100
MS_PER_MINUTE == 1000 * 60
BYTES_PER_MB == 1024 * 1024

\* the conditional left out: getattr(item, 'duration', 0) // (1000 * 60)
DurationMinutesNoGuard(item) ==
    LET val == Getattr(item, "duration", PyInt(0))
    IN  IF ~val.ok THEN Exc
        ELSE IF val.v.t = "int" THEN Ok(PyInt(val.v.n \div MS_PER_MINUTE))
        ELSE Exc

\* getattr(item, 'duration', 0) // (1000 * 60) if getattr(item, 'duration', None) else ''
DurationMinutes(item) ==
    LET cond == Getattr(item, "duration", PyNone)
        val == Getattr(item, "duration", PyInt(0))
    IN  IF ~cond.ok THEN Exc
        ELSE IF ~Truthy(cond.v) THEN Ok(PyStr(""))
        ELSE IF ~val.ok THEN Exc
        ELSE IF val.v.t = "int" THEN Ok(PyInt(val.v.n \div MS_PER_MINUTE))
        ELSE Exc    \* TypeError: // on a value that is not a number

\* getattr(item, 'summary', '').replace('\n', ' ').replace('\r', '') if getattr(item, 'summary', None) else ''
Summary(item) ==
    LET cond == Getattr(item, "summary", PyNone)
        val == Getattr(item, "summary", PyStr(""))
    IN  IF ~cond.ok THEN Exc
        ELSE IF ~Truthy(cond.v) THEN Ok(PyStr(""))
        ELSE IF ~val.ok THEN Exc
        ELSE IF val.v.t = "str"
             THEN Ok(PyStr(Replace(Replace(val.v.s, "\n", " "), "\r", "")))
        ELSE Exc    \* AttributeError: no replace on a value that is not a str

\* [x.tag for x in getattr(item, name, [])]
TagList(item, name) ==
    LET a == Getattr(item, name, PyList(<<>>))
    IN  IF ~a.ok THEN Exc
        ELSE IF a.v.t # "list" THEN Exc    \* TypeError: not iterable
        ELSE IF \E i \in 1..Len(a.v.l) : ~Attr(a.v.l[i], "tag").ok THEN Exc
        ELSE Ok([i \in 1..Len(a.v.l) |-> a.v.l[i].tag])

\* ', '.join(tags): TypeError unless every tag is a str
JoinTags(tags) ==
    IF \E i \in 1..Len(tags) : tags[i].t # "str" THEN Exc
    ELSE Ok(PyStr(Join(", ", [i \in 1..Len(tags) |-> tags[i].s])))

\* ', '.join([genre.tag for genre in getattr(item, 'genres', [])])
Genres(item) ==
    LET tags == TagList(item, "genres")
    IN  IF ~tags.ok THEN Exc ELSE JoinTags(tags.v)

\* ', '.join([director.tag for director in getattr(item, 'directors', [])])
Directors(item) ==
    LET tags == TagList(item, "directors")
    IN  IF ~tags.ok THEN Exc ELSE JoinTags(tags.v)

\* the slice left out: ', '.join([actor.tag for actor in getattr(item, 'roles', [])])
ActorsUncapped(item) ==
    LET tags == TagList(item, "roles")
    IN  IF ~tags.ok THEN Exc ELSE JoinTags(tags.v)

\* ', '.join([actor.tag for actor in getattr(item, 'roles', [])][:5])
Actors(item) ==
    LET tags == TagList(item, "roles")
    IN  IF ~tags.ok THEN Exc ELSE JoinTags(Slice(tags.v, ACTOR_LIMIT))

\* the dict literal row_data = {...}: every value is evaluated, and the first
\* exception leaves the dict unbuilt
RowData(library, item) ==
    LET f == [ library_key |-> Ok(library.key),
               library_name |-> Ok(library.title),
               library_type |-> Ok(library.type),
               title |-> Getattr(item, "title", PyStr("")),
               type |-> Getattr(item, "type", PyStr("")),
               year |-> Getattr(item, "year", PyStr("")),
               rating_key |-> Getattr(item, "ratingKey", PyStr("")),
               duration_minutes |-> DurationMinutes(item),
               file_size_mb |-> Ok(PyStr("")),
               added_at |-> Getattr(item, "addedAt", PyStr("")),
               updated_at |-> Getattr(item, "updatedAt", PyStr("")),
               view_count |-> Getattr(item, "viewCount", PyInt(0)),
               summary |-> Summary(item),
               genres |-> Genres(item),
               directors |-> Directors(item),
               actors |-> Actors(item),
               studio |-> Getattr(item, "studio", PyStr("")),
               content_rating |-> Getattr(item, "contentRating", PyStr("")),
               rating |-> Getattr(item, "rating", PyStr("")),
               guid |-> Getattr(item, "guid", PyStr("")) ]
    IN  IF \E k \in DOMAIN f : ~f[k].ok THEN Exc
        ELSE Ok([k \in DOMAIN f |-> f[k].v])


(***************************************************************************)
(* plex_export.py: the file size of an item                                *)
(***************************************************************************)
\* part.size for part in media.parts if hasattr(part, 'size') and part.size
\* : the sizes one media grouping contributes, or the exception its
\* traversal raises
PartSizes(media) ==
    LET parts == Attr(media, "parts")
    IN  IF ~parts.ok THEN Exc    \* AttributeError: no parts
        ELSE IF parts.v.t # "list" THEN Exc    \* TypeError: not iterable
        ELSE IF \E i \in 1..Len(parts.v.l) : ~Hasattr(parts.v.l[i], "size").ok
             THEN Exc
        ELSE Ok(SelectSeq(parts.v.l,
                          LAMBDA part : Hasattr(part, "size").v /\ Truthy(part.size)))

RECURSIVE SumSeq(_)
SumSeq(ns) == IF ns = <<>> THEN 0 ELSE Head(ns) + SumSeq(Tail(ns))

\* the first grouping only: sum(part.size for part in item.media[0].parts if ...)
TotalSizeFirstMedia(medias) ==
    IF medias.t # "list" THEN Exc
    ELSE IF ~PartSizes(medias.l[1]).ok THEN Exc
    ELSE IF \E j \in 1..Len(PartSizes(medias.l[1]).v) :
                  PartSizes(medias.l[1]).v[j].size.t # "int"
         THEN Exc
    ELSE Ok(SumSeq([j \in 1..Len(PartSizes(medias.l[1]).v) |->
                    PartSizes(medias.l[1]).v[j].size.n]))

\* sum(part.size for media in item.media for part in media.parts if ...)
TotalSize(medias) ==
    IF medias.t # "list" THEN Exc    \* TypeError: not iterable
    ELSE IF \E i \in 1..Len(medias.l) : ~PartSizes(medias.l[i]).ok THEN Exc
    ELSE IF \E i \in 1..Len(medias.l) :
              \E j \in 1..Len(PartSizes(medias.l[i]).v) :
                  PartSizes(medias.l[i]).v[j].size.t # "int"
         THEN Exc    \* TypeError: sum() of a size that is not a number
    ELSE Ok(SumSeq([i \in 1..Len(medias.l) |->
                SumSeq([j \in 1..Len(PartSizes(medias.l[i]).v) |->
                    PartSizes(medias.l[i]).v[j].size.n])]))

\* round(total_size / (1024 * 1024), 2), in hundredths: the quotient is exact
\* in binary floating point, and round() rounds it half to even
RoundMb(total_size) ==
    LET whole == total_size \div BYTES_PER_MB
        x == (total_size % BYTES_PER_MB) * 100
        h == x \div BYTES_PER_MB
        rem == x % BYTES_PER_MB
        up == 2 * rem > BYTES_PER_MB \/ (2 * rem = BYTES_PER_MB /\ h % 2 = 1)
    IN  whole * 100 + h + (IF up THEN 1 ELSE 0)

\* the body of the inner try: the value assigned to row_data['file_size_mb'],
\* NoAssign when the if is not taken, or the exception raised
NoAssign == [t |-> "noassign"]
FileSizeTry(item) ==
    LET has == Hasattr(item, "media")
    IN  IF ~has.ok THEN Exc
        ELSE IF ~has.v THEN Ok(NoAssign)
        ELSE IF ~Truthy(item.media) THEN Ok(NoAssign)
        ELSE LET total == TotalSize(item.media)
             IN  IF ~total.ok THEN Exc
                 ELSE IF total.v # 0 THEN Ok(PyFloat(RoundMb(total.v)))
                 ELSE Ok(PyStr(""))

\* try: ... except Exception: pass  -- row_data after the file size step
WithFileSize(row_data, item) ==
    LET r == FileSizeTry(item)
    IN  IF r.ok /\ r.v # NoAssign THEN [row_data EXCEPT !.file_size_mb = r.v]
        ELSE row_data

(***************************************************************************)
(* csv.DictWriter                                                          *)
(***************************************************************************)
\* str(x) of a float of at most two decimals: 3.0, 0.12, 1.5
FloatStr(h) ==
    ToString(h \div 100) \o "." \o
    (IF h % 10 = 0 THEN ToString((h % 100) \div 10)
     ELSE IF h % 100 < 10 THEN "0" \o ToString(h % 100)
     ELSE ToString(h % 100))

\* the text the csv writer makes of one value: None is written empty, a str
\* as it is, anything else through str()
CsvCell(v) ==
    CASE v.t = "none" -> Ok("")
      [] v.t = "str" -> Ok(v.s)
      [] v.t = "int" -> Ok(ToString(v.n))
      [] v.t = "float" -> Ok(FloatStr(v.h))
      [] v.t = "unprintable" -> Exc
      [] OTHER -> Ok("<object>")

\* writer.writeheader(): the lines of the file afterwards
WriteHeader(lines) == Append(lines, fieldnames)

\* writer.writerow(row_data): the values in the order of fieldnames, written
\* as one line, or the exception raised with nothing written
WriteRow(lines, row_data) ==
    LET cells == [i \in 1..Len(fieldnames) |-> CsvCell(row_data[fieldnames[i]])]
    IN  IF \E i \in 1..Len(cells) : ~cells[i].ok THEN Exc
        ELSE Ok(Append(lines, [i \in 1..Len(cells) |-> cells[i].v]))


(***************************************************************************)
(* The data source: the sections of the Plex server and their items, and   *)
(* for each section whether get_library_items() fails on it in this run.   *)
(***************************************************************************)
MaxLibs == 2
MaxItems == 2
MaxRoles == 6
MaxMedia == 2
MaxParts == 2
BulkLen == 310

Actor(i) == Tag(PyStr("Actor" \o ToString(i)))

BaseItem ==
    [ title |-> PyStr("Test Film"), type |-> PyStr("movie"),
      year |-> PyInt(2020), ratingKey |-> PyInt(101),
      duration |-> PyInt(5400000),
      addedAt |-> PyStr("2024-01-01 10:00:00"),
      updatedAt |-> PyStr("2024-02-01 10:00:00"),
      viewCount |-> PyInt(3),
      summary |-> PyStr("One\nTwo\r\nThree"),
      genres |-> PyList(<< Tag(PyStr("Drama")), Tag(PyStr("Crime")) >>),
      directors |-> PyList(<< Tag(PyStr("A Director")) >>),
      roles |-> PyList(<< Actor(1), Actor(2) >>),
      studio |-> PyStr("Studio"), contentRating |-> PyStr("PG"),
      rating |-> PyFloat(750), guid |-> PyStr("plex://movie/101"),
      media |-> PyList(<< Media(PyList(<< Part(PyInt(1048576)) >>)),
                          Media(PyList(<< Part(PyInt(2097152)) >>)) >>) ]

\* items whose processing takes each path of the loop body
GoodItem == BaseItem
NoSizeItem == [BaseItem EXCEPT !.title = PyStr("No Size"), !.media = PyList(<< Media(Absent) >>)]
BadGenresItem == [BaseItem EXCEPT !.title = PyStr("Bad Genres"), !.genres = PyNone]
UnwritableItem == [BaseItem EXCEPT !.title = PyStr("Unwritable"), !.studio = Unprintable]
BadTitleItem == [BaseItem EXCEPT !.title = Raises]
ItemPool == {GoodItem, NoSizeItem, BadGenresItem, UnwritableItem, BadTitleItem}

LibTitle(i) ==
    IF i = 1 THEN "Movies" ELSE IF i = 2 THEN "TV Shows"
    ELSE "Library " \o ToString(i)
LibType(i) == IF i = 1 THEN "movie" ELSE IF i = 2 THEN "show" ELSE "artist"

Section(i, fetch, its) ==
    [key |-> PyInt(i), title |-> PyStr(LibTitle(i)), type |-> PyStr(LibType(i)),
     agent |-> PyStr("tv.plex.agents"), fetch |-> fetch, items |-> its]

\* the ways to cut n items into nl consecutive libraries: the index of the
\* last item of each library
Cuts(n, nl) ==
    {c \in [1..nl -> 0..n] :
        /\ \A i \in 1..nl : i > 1 => c[i-1] <= c[i]
        /\ (nl = 0 => n = 0)
        /\ (nl > 0 => c[nl] = n)}

\* every server of at most MaxLibs sections holding at most MaxItems items
\* in all, where a section whose fetch fails is given no items
SmallSources ==
    UNION { UNION { UNION {
        { [i \in 1..nl |->
             LET lo == IF i = 1 THEN 0 ELSE c[i-1]
             IN  Section(i, IF i \in bad THEN "raise" ELSE "ok",
                         [j \in 1..(c[i] - lo) |-> flat[lo + j]])]
          : bad \in SUBSET {i \in 1..nl : c[i] = (IF i = 1 THEN 0 ELSE c[i-1])} }
        : c \in Cuts(n, nl) }
        : flat \in [1..n -> ItemPool] }
        : n \in 0..MaxItems, nl \in 0..MaxLibs }


\* a part's size attribute
SizePool == {Absent, PyInt(131072), PyInt(1048576), PyInt(2097152)}

\* every media list of at most MaxMedia groupings holding at most MaxParts
\* parts in all
MediaLists ==
    UNION { UNION {
        { PyList([i \in 1..nm |->
             LET lo == IF i = 1 THEN 0 ELSE c[i-1]
             IN  Media(PyList([j \in 1..(c[i] - lo) |-> Part(flat[lo + j])]))])
          : c \in Cuts(n, nm) }
        : flat \in [1..n -> SizePool] }
        : n \in 0..MaxParts, nm \in 0..MaxMedia }

\* media attributes whose traversal raises, or that are not lists
OddMedia ==
    { Absent, Raises, PyNone, PyInt(1),
      PyList(<< Media(Absent) >>), PyList(<< Media(Raises) >>),
      PyList(<< Media(PyNone) >>),
      PyList(<< Media(PyList(<< Part(PyInt(1048576)) >>)), Media(Absent) >>),
      PyList(<< Media(PyList(<< Part(PyStr("big")) >>)) >>),
      PyList(<< Media(PyList(<< Part(PyInt(1048576)), Part(Raises) >>)) >>),
      PyList(<< Media(PyList(<< Part(PyNone) >>)) >>),
      PyList(<< Media(PyList(<< Part(PyInt(0)) >>)) >>),
      PyList(<< Media(PyList(<< Part(PyInt(0)), Part(PyInt(1)) >>)) >>) }

Durations ==
    { Absent, PyNone, Raises, PyStr(""), PyStr("90"), PyInt(0), PyInt(1),
      PyInt(59999), PyInt(60000), PyInt(125000), PyInt(5400000) }

Summaries ==
    { Absent, PyNone, Raises, PyStr(""), PyStr("a\rb\nc"), PyInt(5) }

\* tag lists of every length up to MaxRoles, and the malformed ones
TagLists ==
    { PyList([i \in 1..n |-> Actor(i)]) : n \in 0..MaxRoles }
    \cup { Absent, Raises, PyNone, PyInt(1),
           PyList(<< Actor(1), Tag(Absent), Actor(3) >>),
           PyList(<< Actor(1), Tag(PyInt(2)), Actor(3) >>),
           PyList([i \in 1..6 |-> IF i = 6 THEN Tag(Absent) ELSE Actor(i)]),
           PyList([i \in 1..6 |-> IF i = 6 THEN Tag(PyInt(6)) ELSE Actor(i)]) }

Scalars == { Absent, PyNone, Raises, Unprintable }

\* the items that differ from BaseItem in one attribute
RichItems ==
    { [BaseItem EXCEPT !.media = m] : m \in MediaLists \cup OddMedia }
    \cup { [BaseItem EXCEPT !.duration = d] : d \in Durations }
    \cup { [BaseItem EXCEPT !.summary = x] : x \in Summaries }
    \cup { [BaseItem EXCEPT !.genres = l] : l \in TagLists }
    \cup { [BaseItem EXCEPT !.directors = l] : l \in TagLists }
    \cup { [BaseItem EXCEPT !.roles = l] : l \in TagLists }
    \cup { [BaseItem EXCEPT !.title = x] : x \in Scalars }
    \cup { [BaseItem EXCEPT !.year = x] : x \in Scalars }
    \cup { [BaseItem EXCEPT !.viewCount = x] : x \in Scalars }
    \cup { [BaseItem EXCEPT !.guid = x] : x \in Scalars }

\* one library holding one item
RichSources == { << Section(1, "ok", << it >>) >> : it \in RichItems }

\* n items of which every p-th fails (none when p = 0)
Bulk(n, p) ==
    [i \in 1..n |-> IF p > 0 /\ i % p = 0 THEN BadGenresItem ELSE GoodItem]

\* two libraries long enough for the progress marker: in the first every third
\* item fails
BulkSources ==
    { << Section(1, "ok", Bulk(BulkLen, 3)),
         Section(2, "ok", Bulk(PROGRESS_EVERY + MaxItems, 0)) >> }

\* one library whose items differ in their duration only
DurationSource ==
    << Section(1, "ok",
          << [BaseItem EXCEPT !.duration = Absent],
             [BaseItem EXCEPT !.duration = PyNone],
             [BaseItem EXCEPT !.duration = PyInt(0)],
             [BaseItem EXCEPT !.duration = PyInt(125000)],
             [BaseItem EXCEPT !.duration = PyInt(5400000)] >>) >>

Sources == SmallSources \cup RichSources \cup BulkSources \cup {DurationSource}


(***************************************************************************)
(* The state of a run                                                      *)
(***************************************************************************)
VARIABLES
    program,        \* "main", "export" (export_all_libraries_to_csv called
                    \* directly) or "items" (plex_get.py items)
    pc,             \* where the run is
    plex,           \* the data source
    stdout,         \* what was printed, in order
    libraries,      \* export: the list list_all_libraries() returned
    csvfile,        \* export: the output file, [state, lines]
    total_items,    \* export: the local total_items
    library_items,  \* export: the local library_items
    per_library_items, \* export: the value library_items reached for each library
    lib,            \* export: how many libraries the for loop has taken
    items,          \* export: the items of the current library
    idx,            \* export: how many of them the inner for loop has taken
    returned,       \* export: the value returned
    library_key,    \* items: the --library-key option
    library_name,   \* items: the --library-name option
    calls           \* items: the calls made to the data source

vars == << program, pc, plex, stdout, libraries, csvfile, total_items,
           library_items, per_library_items, lib, items, idx, returned,
           library_key, library_name, calls >>

exportVars == << libraries, csvfile, total_items, library_items,
                 per_library_items, lib, items, idx, returned >>
itemsVars == << library_key, library_name, calls >>

\* f"plex_library_export_{timestamp}.csv"
Filename == "plex_library_export_20240101_120000.csv"

\* the options of the items command
KeyArgs == {PyNone, PyInt(0), PyInt(1), PyInt(2), PyInt(3)}
NameArgs == {PyNone, PyStr(""), PyStr("Movies"), PyStr("TV Shows"), PyStr("Nope")}

\* the server the items command is run against
ItemsSource ==
    << Section(1, "ok", << GoodItem, [BaseItem EXCEPT !.year = Absent],
                           [BaseItem EXCEPT !.year = PyNone] >>),
       Section(2, "ok", << >>) >>

Init ==
    /\ program \in {"main", "export", "items"}
    /\ pc = program
    /\ plex \in (CASE program = "main" -> Sources
                   [] program = "export" -> {src \in SmallSources : Len(src) <= 1}
                   [] OTHER -> {ItemsSource})
    /\ stdout = << >>
    /\ libraries = << >>
    /\ csvfile = [state |-> "none", lines |-> << >>]
    /\ total_items = 0
    /\ library_items = 0
    /\ per_library_items = << >>
    /\ lib = 0
    /\ items = << >>
    /\ idx = 0
    /\ returned = PyNone
    /\ library_key \in (IF program = "items" THEN KeyArgs ELSE {PyNone})
    /\ library_name \in (IF program = "items" THEN NameArgs ELSE {PyNone})
    /\ calls = << >>

(***************************************************************************)
(* plex_export.py: list_all_libraries, main                                *)
(***************************************************************************)
\* list_all_libraries(): one dict per section
ListAllLibraries(server) ==
    [i \in 1..Len(server) |->
        [key |-> server[i].key, title |-> server[i].title,
         type |-> server[i].type, agent |-> server[i].agent,
         total_items |-> PyInt(Len(server[i].items))]]

\* main's except clause
MainErrorLines ==
    << [msg |-> "Error"], [msg |-> "Make sure your PLEX_URL and PLEX_TOKEN"] >>

\* main(): list_all_libraries() succeeds and finds libraries
MainListLibraries ==
    /\ pc = "main"
    /\ plex # << >>
    /\ stdout' = << [msg |-> "=== Plex Library CSV Exporter ==="],
                    [msg |-> "Available libraries:"] >>
                 \o [i \in 1..Len(plex) |->
                        [msg |-> "Key", library |-> ListAllLibraries(plex)[i]]]
                 \o << [msg |-> "===="] >>
    /\ pc' = "export"
    /\ UNCHANGED << program, plex, exportVars, itemsVars >>

\* main(): list_all_libraries() returns no library
MainNoLibraries ==
    /\ pc = "main"
    /\ plex = << >>
    /\ stdout' = << [msg |-> "=== Plex Library CSV Exporter ==="],
                    [msg |-> "Available libraries:"],
                    [msg |-> "No libraries found. Check your connection and token."] >>
    /\ pc' = "main_returned"
    /\ UNCHANGED << program, plex, exportVars, itemsVars >>

\* main(): list_all_libraries() raises
MainListFails ==
    /\ pc = "main"
    /\ stdout' = << [msg |-> "=== Plex Library CSV Exporter ==="],
                    [msg |-> "Available libraries:"] >> \o MainErrorLines
    /\ pc' = "main_failed"
    /\ UNCHANGED << program, plex, exportVars, itemsVars >>

\* an exception leaves export_all_libraries_to_csv: main catches it, a
\* direct caller gets it
Propagate ==
    /\ pc' = IF program = "main" THEN "main_failed" ELSE "raised"
    /\ stdout' = IF program = "main" THEN stdout \o MainErrorLines ELSE stdout

\* export_all_libraries_to_csv: libraries = list_all_libraries(...), total_items = 0
ExportListLibraries ==
    /\ pc = "export"
    /\ libraries' = ListAllLibraries(plex)
    /\ per_library_items' = [i \in 1..Len(plex) |-> 0]
    /\ total_items' = 0
    /\ pc' = "open"
    /\ UNCHANGED << program, plex, stdout, csvfile, library_items, lib, items,
                    idx, returned, itemsVars >>

\* the file opened before the libraries are listed: list_all_libraries(...)
\* raises with the header written
ExportListFailsAfterOpen ==
    /\ pc = "export"
    /\ csvfile' = [state |-> "closed", lines |-> WriteHeader(<< >>)]
    /\ Propagate
    /\ UNCHANGED << program, plex, libraries, total_items, library_items,
                    per_library_items, lib, items, idx, returned, itemsVars >>

\* export_all_libraries_to_csv: list_all_libraries(...) raises
ExportListFails ==
    /\ pc = "export"
    /\ Propagate
    /\ UNCHANGED << program, plex, exportVars, itemsVars >>

\* with open(filename, 'w', ...) as csvfile: ... writer.writeheader()
OpenCsv ==
    /\ pc = "open"
    /\ csvfile' = [state |-> "open", lines |-> WriteHeader(<< >>)]
    /\ pc' = "for_library"
    /\ UNCHANGED << program, plex, stdout, libraries, total_items,
                    library_items, per_library_items, lib, items, idx,
                    returned, itemsVars >>

\* open() raises: no file is created
OpenFails ==
    /\ pc = "open"
    /\ Propagate
    /\ UNCHANGED << program, plex, exportVars, itemsVars >>

\* writer.writeheader() raises: the file was created and is closed empty
HeaderFails ==
    /\ pc = "open"
    /\ csvfile' = [state |-> "closed", lines |-> << >>]
    /\ Propagate
    /\ UNCHANGED << program, plex, libraries, total_items, library_items,
                    per_library_items, lib, items, idx, returned, itemsVars >>


(***************************************************************************)
(* plex_export.py: the loops of export_all_libraries_to_csv                *)
(***************************************************************************)
\* items = get_library_items(library['key'], ...); library_items = 0
FetchLibrary ==
    /\ pc = "for_library"
    /\ lib < Len(libraries)
    /\ plex[lib + 1].fetch = "ok"
    /\ lib' = lib + 1
    /\ stdout' = Append(stdout, [msg |-> "Processing library",
                                 title |-> libraries[lib + 1].title,
                                 key |-> libraries[lib + 1].key])
    /\ items' = plex[lib + 1].items
    /\ idx' = 0
    /\ library_items' = 0
    /\ pc' = "for_item"
    /\ UNCHANGED << program, plex, libraries, csvfile, total_items,
                    per_library_items, returned, itemsVars >>

\* the outer try left out: the exception of get_library_items leaves the run
FetchLibraryFailsUnhandled ==
    /\ pc = "for_library"
    /\ lib < Len(libraries)
    /\ plex[lib + 1].fetch = "raise"
    /\ lib' = lib + 1
    /\ csvfile' = [csvfile EXCEPT !.state = "closed"]
    /\ Propagate
    /\ UNCHANGED << program, plex, libraries, total_items, library_items,
                    per_library_items, items, idx, returned, itemsVars >>

\* get_library_items raises: the outer except prints and continues
FetchLibraryFails ==
    /\ pc = "for_library"
    /\ lib < Len(libraries)
    /\ plex[lib + 1].fetch = "raise"
    /\ lib' = lib + 1
    /\ stdout' = stdout \o
          << [msg |-> "Processing library", title |-> libraries[lib + 1].title,
              key |-> libraries[lib + 1].key],
             [msg |-> "Error processing library",
              title |-> libraries[lib + 1].title] >>
    /\ UNCHANGED << program, pc, plex, libraries, csvfile, total_items,
                    library_items, per_library_items, items, idx, returned,
                    itemsVars >>

\* the body of the inner try up to writer.writerow(row_data): the lines of
\* the file afterwards, or the exception
ItemResult(library, item, lines) ==
    LET row_data == RowData(library, item)
    IN  IF ~row_data.ok THEN Exc
        ELSE WriteRow(lines, WithFileSize(row_data.v, item))

\* {getattr(item, 'title', 'Unknown')} in the message of the inner except:
\* the title read and formatted again, or the exception that raises
HandlerTitle(item) ==
    LET title == Getattr(item, "title", PyStr("Unknown"))
    IN  IF ~title.ok THEN Exc
        ELSE IF ~CsvCell(title.v).ok THEN Exc
        ELSE Ok(title.v)

\* the increment moved out of the try: counted whether written or not
CountedAlways(n, written) == n + 1

\* library_items += 1 / total_items += 1: after writerow only
Counted(n, written) == IF written THEN n + 1 ELSE n

\* the test made before the increment: the marker comes one item late
ProgressDueLate(n) == (n - 1) % PROGRESS_EVERY = 0

\* if library_items % 100 == 0
ProgressDue(n) == n % PROGRESS_EVERY = 0

\* one turn of `for item in items`
ProcessItem ==
    /\ pc = "for_item"
    /\ idx < Len(items)
    /\ LET item == items[idx + 1]
           library == libraries[lib]
           r == ItemResult(library, item, csvfile.lines)
           title == HandlerTitle(item)
           n == Counted(library_items, r.ok)
       IN  /\ csvfile' = IF r.ok THEN [csvfile EXCEPT !.lines = r.v] ELSE csvfile
           /\ library_items' = n
           /\ total_items' = Counted(total_items, r.ok)
           /\ per_library_items' = [per_library_items EXCEPT ![lib] = n]
           /\ IF r.ok
              THEN /\ stdout' = IF ProgressDue(n)
                                THEN Append(stdout, [msg |-> "Processed", n |-> n,
                                                     title |-> library.title])
                                ELSE stdout
                   /\ idx' = idx + 1
                   /\ pc' = pc
              ELSE IF title.ok
              THEN \* except Exception as e: print(...); continue
                   /\ stdout' = Append(stdout, [msg |-> "Error processing item",
                                                title |-> title.v])
                   /\ idx' = idx + 1
                   /\ pc' = pc
              ELSE \* the print of the inner except raises: the outer except
                   \* prints and continues with the next library
                   /\ stdout' = Append(stdout, [msg |-> "Error processing library",
                                                title |-> library.title])
                   /\ idx' = idx
                   /\ pc' = "for_library"
    /\ UNCHANGED << program, plex, libraries, lib, items, returned, itemsVars >>

\* print(f"  Completed: {library_items} items from {library['title']}")
LibraryDone ==
    /\ pc = "for_item"
    /\ idx = Len(items)
    /\ stdout' = Append(stdout, [msg |-> "Completed", n |-> library_items,
                                 title |-> libraries[lib].title])
    /\ pc' = "for_library"
    /\ UNCHANGED << program, plex, exportVars, itemsVars >>

\* the with block ends, the totals are printed, filename is returned
Finish ==
    /\ pc = "for_library"
    /\ lib = Len(libraries)
    /\ csvfile' = [csvfile EXCEPT !.state = "closed"]
    /\ stdout' = stdout \o
          << [msg |-> "Export completed!"],
             [msg |-> "Total items exported", n |-> total_items],
             [msg |-> "CSV file saved as", filename |-> Filename] >>
    /\ returned' = PyStr(Filename)
    /\ pc' = IF program = "main" THEN "exported" ELSE "returned"
    /\ UNCHANGED << program, plex, libraries, total_items, library_items,
                    per_library_items, lib, items, idx, itemsVars >>

\* main(): print(f"\nCSV export saved to: {csv_filename}")
MainFinish ==
    /\ pc = "exported"
    /\ stdout' = Append(stdout, [msg |-> "CSV export saved to",
                                 filename |-> returned.s])
    /\ pc' = "main_returned"
    /\ UNCHANGED << program, plex, exportVars, itemsVars >>


(***************************************************************************)
(* plex_get.py: the items command                                          *)
(***************************************************************************)
\* if not library_name and not library_key
NeitherGiven(key, name) == ~Truthy(name) /\ ~Truthy(key)
\* if library_name and library_key
BothGiven(key, name) == Truthy(name) /\ Truthy(key)

\* item.year if hasattr(item, 'year') and item.year else 'N/A'
YearOrNA(item) ==
    LET has == Hasattr(item, "year")
    IN  IF ~has.ok THEN Exc
        ELSE IF has.v /\ Truthy(item.year) THEN Ok(item.year)
        ELSE Ok(PyStr("N/A"))

\* get_library_items_by_key / _by_name: the list of {title, year} dicts of a
\* section, or the exception
LibraryItemsList(section) ==
    IF \E i \in 1..Len(section.items) :
          ~Attr(section.items[i], "title").ok \/ ~YearOrNA(section.items[i]).ok
    THEN Exc
    ELSE Ok([i \in 1..Len(section.items) |->
                [title |-> section.items[i].title,
                 year |-> YearOrNA(section.items[i]).v]])

\* print_library_items: the table and the total
TableLines(item_list) ==
    << [msg |-> "Library Items",
        rows |-> << << "#", "Title", "Year" >> >> \o
                 [i \in 1..Len(item_list) |->
                    << ToString(i), CsvCell(item_list[i].title).v,
                       CsvCell(item_list[i].year).v >>]],
       [msg |-> "Total items", n |-> Len(item_list)] >>

\* neither option: two error lines and return
ItemsNeither ==
    /\ pc = "items"
    /\ program = "items"
    /\ NeitherGiven(library_key, library_name)
    /\ stdout' = << [msg |-> "Error: You must specify either --library-name (-n) or --library-key (-k)"],
                    [msg |-> "Use 'python plex_get.py items --help' for more information"] >>
    /\ pc' = "cmd_returned"
    /\ UNCHANGED << program, plex, exportVars, itemsVars >>

\* both options: one error line and return
ItemsBoth ==
    /\ pc = "items"
    /\ program = "items"
    /\ ~NeitherGiven(library_key, library_name)
    /\ BothGiven(library_key, library_name)
    /\ stdout' = << [msg |-> "Error: Please specify either --library-name (-n) OR --library-key (-k), not both"] >>
    /\ pc' = "cmd_returned"
    /\ UNCHANGED << program, plex, exportVars, itemsVars >>

\* if library_key: PlexService() ...
ItemsByKey ==
    /\ pc = "items"
    /\ program = "items"
    /\ ~NeitherGiven(library_key, library_name)
    /\ ~BothGiven(library_key, library_name)
    /\ Truthy(library_key)
    /\ calls' = Append(calls, [call |-> "PlexServer"])
    /\ pc' = "by_key"
    /\ UNCHANGED << program, plex, stdout, exportVars, library_key, library_name >>

\* elif library_name: PlexService() ...
ItemsByName ==
    /\ pc = "items"
    /\ program = "items"
    /\ ~NeitherGiven(library_key, library_name)
    /\ ~BothGiven(library_key, library_name)
    /\ ~Truthy(library_key)
    /\ Truthy(library_name)
    /\ calls' = Append(calls, [call |-> "PlexServer"])
    /\ pc' = "by_name"
    /\ UNCHANGED << program, plex, stdout, exportVars, library_key, library_name >>

\* PlexService() cannot connect: the exception ends the command
ItemsConnectFails ==
    /\ pc = "items"
    /\ program = "items"
    /\ ~NeitherGiven(library_key, library_name)
    /\ ~BothGiven(library_key, library_name)
    /\ calls' = Append(calls, [call |-> "PlexServer"])
    /\ pc' = "raised"
    /\ UNCHANGED << program, plex, stdout, exportVars, library_key, library_name >>

\* print_library_items_by_key(library_key): sectionByID, all(), the table
PrintByKey ==
    /\ pc = "by_key"
    /\ calls' = Append(calls, [call |-> "sectionByID", arg |-> library_key])
    /\ LET found == {i \in 1..Len(plex) : plex[i].key = library_key}
       IN  IF found = {} \/ (\E i \in found : ~LibraryItemsList(plex[i]).ok)
           THEN pc' = "raised" /\ stdout' = stdout
           ELSE /\ pc' = "cmd_returned"
                /\ stdout' = TableLines(LibraryItemsList(plex[CHOOSE i \in found : TRUE]).v)
    /\ UNCHANGED << program, plex, exportVars, library_key, library_name >>

\* print_library_items_by_name(library_name): section, all(), the table
PrintByName ==
    /\ pc = "by_name"
    /\ calls' = Append(calls, [call |-> "section", arg |-> library_name])
    /\ LET found == {i \in 1..Len(plex) : plex[i].title = library_name}
       IN  IF found = {} \/ (\E i \in found : ~LibraryItemsList(plex[i]).ok)
           THEN pc' = "raised" /\ stdout' = stdout
           ELSE /\ pc' = "cmd_returned"
                /\ stdout' = TableLines(LibraryItemsList(plex[CHOOSE i \in found : TRUE]).v)
    /\ UNCHANGED << program, plex, exportVars, library_key, library_name >>

(***************************************************************************)
(* The specification                                                       *)
(***************************************************************************)
Next ==
    \/ MainListLibraries
    \/ MainNoLibraries
    \/ MainListFails
    \/ ExportListLibraries
    \/ ExportListFails
    \/ OpenCsv
    \/ OpenFails
    \/ HeaderFails
    \/ FetchLibrary
    \/ FetchLibraryFails
    \/ ProcessItem
    \/ LibraryDone
    \/ Finish
    \/ MainFinish
    \/ ItemsNeither
    \/ ItemsBoth
    \/ ItemsByKey
    \/ ItemsByName
    \/ ItemsConnectFails
    \/ PrintByKey
    \/ PrintByName

Spec == Init /\ [][Next]_vars


(***************************************************************************)
(* What the claims speak of                                                *)
(***************************************************************************)
\* the column of a field in a line of the file
Col(name) == CHOOSE i \in 1..Len(fieldnames) : fieldnames[i] = name

\* this step is one turn of the inner for loop, on the item TheItem
ItemStep == pc = "for_item" /\ idx < Len(items)
TheItem == items[idx + 1]
\* the step wrote a line, TheLine
Wrote == Len(csvfile'.lines) = Len(csvfile.lines) + 1
TheLine == csvfile'.lines[Len(csvfile'.lines)]
\* the data rows of the file
DataRows == IF csvfile.lines = << >> THEN << >> ELSE Tail(csvfile.lines)

\* the line written for BaseItem in library number i, but for its file size
BaseLine(i) ==
    << ToString(i), LibTitle(i), LibType(i), "Test Film", "movie", "2020", "101",
       "90", "3.0", "2024-01-01 10:00:00", "2024-02-01 10:00:00", "3",
       "One Two Three", "Drama, Crime", "A Director", "Actor1, Actor2",
       "Studio", "PG", "7.5", "plex://movie/101" >>

\* line is the line of BaseItem in library i, but for the columns in cols
SameButFor(line, i, cols) ==
    \A c \in 1..Len(fieldnames) : c \in cols \/ line[c] = BaseLine(i)[c]

(***************************************************************************)
(* C7                                                                      *)
(***************************************************************************)
\* C7: duration_minutes is empty for an item whose duration is absent, None
\* or 0, and otherwise the duration in milliseconds integer-divided by 60000;
\* an item that is well formed but for such a duration is written, not failed
C7_DurationMinutes ==
    [][ ItemStep =>
          LET d == TheItem.duration
          IN  /\ (Wrote /\ d.t \in {"absent", "none"})
                    => TheLine[Col("duration_minutes")] = ""
              /\ (Wrote /\ d.t = "int" /\ d.n = 0)
                    => TheLine[Col("duration_minutes")] = ""
              /\ (Wrote /\ d.t = "int" /\ d.n # 0)
                    => TheLine[Col("duration_minutes")] = ToString(d.n \div 60000)
              /\ (d.t \in {"absent", "none", "int"}
                    /\ TheItem = [BaseItem EXCEPT !.duration = d])
                    => Wrote /\ SameButFor(TheLine, lib, {Col("duration_minutes")})
      ]_vars

\* the five items of DurationSource are written: empty for the absent, the
\* None and the zero duration, 2 for 125000 ms, 90 for 5400000 ms
C7_Witness ==
    /\ plex = DurationSource
    /\ pc = "for_item"
    /\ idx = 5
    /\ Len(csvfile.lines) = 6
    /\ [i \in 1..5 |-> csvfile.lines[i + 1][Col("duration_minutes")]]
          = << "", "", "", "2", "90" >>


(***************************************************************************)
(* C8                                                                      *)
(***************************************************************************)
\* a list of tag objects whose tags are all strings
StrTags(v) ==
    v.t = "list" /\ \A i \in 1..Len(v.l) : v.l[i].tag.t = "str"

\* the first n tags of such a list, joined by ", "
Joined(v, n) == Join(", ", [i \in 1..n |-> v.l[i].tag.s])

\* C8: in every row written, actors is the tags of the first min(5, n) of the
\* item's n roles, in order, joined by ", " (exactly the first five for more
\* than five roles, empty for none); genres and directors are all their tags
\* joined, without a cap
C8_ActorsCapped ==
    [][ (ItemStep /\ Wrote) =>
          LET roles == TheItem.roles
              genres == TheItem.genres
              directors == TheItem.directors
              n == Len(roles.l)
          IN  /\ StrTags(roles) =>
                    /\ TheLine[Col("actors")] = Joined(roles, IF n < 5 THEN n ELSE 5)
                    /\ n = 0 => TheLine[Col("actors")] = ""
                    /\ (n > 5 /\ roles = PyList([i \in 1..n |-> Actor(i)]))
                          => TheLine[Col("actors")]
                                = "Actor1, Actor2, Actor3, Actor4, Actor5"
              /\ StrTags(genres)
                    => TheLine[Col("genres")] = Joined(genres, Len(genres.l))
              /\ StrTags(directors)
                    => TheLine[Col("directors")] = Joined(directors, Len(directors.l))
              /\ genres = PyList([i \in 1..6 |-> Actor(i)])
                    => TheLine[Col("genres")]
                          = "Actor1, Actor2, Actor3, Actor4, Actor5, Actor6"
      ]_vars

\* an item of six roles has been written with its first five
C8_Witness ==
    /\ pc = "for_item"
    /\ idx = 1
    /\ items[1].roles = PyList([i \in 1..6 |-> Actor(i)])
    /\ Len(csvfile.lines) = 2
    /\ csvfile.lines[2][Col("actors")] = "Actor1, Actor2, Actor3, Actor4, Actor5"
    /\ csvfile.lines[2][Col("genres")] = "Drama, Crime"


(***************************************************************************)
(* C6                                                                      *)
(***************************************************************************)
\* a media list of groupings of parts whose sizes are absent, None or numbers
PlainMedia(m) ==
    /\ m.t = "list"
    /\ \A i \in 1..Len(m.l) :
          /\ m.l[i].parts.t = "list"
          /\ \A j \in 1..Len(m.l[i].parts.l) :
                m.l[i].parts.l[j].size.t \in {"absent", "none", "int"}

\* the bytes of a part: 0 for an absent or None size
Bytes(part) == IF part.size.t = "int" THEN part.size.n ELSE 0

\* the bytes of all parts of all groupings
AllBytes(m) ==
    SumSeq([i \in 1..Len(m.l) |->
        SumSeq([j \in 1..Len(m.l[i].parts.l) |-> Bytes(m.l[i].parts.l[j])])])

\* text is a number of megabytes within half a hundredth of bytes
IsMegabytes(text, bytes) ==
    \E h \in 0..((bytes * 100) \div BYTES_PER_MB + 1) :
        /\ text = FloatStr(h)
        /\ h * BYTES_PER_MB - bytes * 100 <= BYTES_PER_MB \div 2
        /\ bytes * 100 - h * BYTES_PER_MB <= BYTES_PER_MB \div 2

\* C6: an item that is well formed but for its media is always written, with
\* every other field as it is; its file_size_mb is the sum of the sizes of all
\* parts of all groupings in megabytes (3.0 for 1048576 + 2097152 bytes), and
\* empty when there is no media, when the sum is 0, and when the traversal of
\* media and parts fails
C6_FileSize ==
    [][ (ItemStep /\ \E m \in {TheItem.media} : TheItem = [BaseItem EXCEPT !.media = m]) =>
          LET m == TheItem.media
              cell == TheLine[Col("file_size_mb")]
          IN  /\ Wrote
              /\ SameButFor(TheLine, lib, {Col("file_size_mb")})
              /\ library_items' = library_items + 1
              /\ IF m.t \in {"absent", "none"} THEN cell = ""
                 ELSE IF PlainMedia(m)
                 THEN IF AllBytes(m) = 0 THEN cell = ""
                      ELSE IsMegabytes(cell, AllBytes(m))
                 ELSE cell = ""
              /\ m = BaseItem.media => cell = "3.0"
      ]_vars

\* a library of an item of two groupings of 1048576 and 2097152 bytes, and an
\* item whose grouping has no parts attribute: both written, 3.0 and empty
C6_Witness ==
    /\ items = << GoodItem, NoSizeItem >>
    /\ pc = "for_item"
    /\ idx = 2
    /\ Len(csvfile.lines) = 3
    /\ csvfile.lines[2][Col("file_size_mb")] = "3.0"
    /\ csvfile.lines[3][Col("file_size_mb")] = ""
    /\ csvfile.lines[3][Col("title")] = "No Size"
    /\ total_items = 2


(***************************************************************************)
(* C9                                                                      *)
(***************************************************************************)
\* the printed lines that say msg
Said(msg) == SelectSeq(stdout, LAMBDA line : line.msg = msg)

\* C9: once the file is open the header is its first line; total_items is the
\* number of data rows written and the sum of the counts of the libraries;
\* total_items never decreases and no library's count ever does; the total
\* printed at the end is the number of data rows of the file
C9_Counters ==
    /\ [](/\ csvfile.state = "open" => csvfile.lines # << >>
          /\ csvfile.lines # << >> =>
                /\ csvfile.lines[1] = fieldnames
                /\ \A i \in 2..Len(csvfile.lines) : csvfile.lines[i] # fieldnames
          /\ total_items = Len(DataRows)
          /\ total_items = SumSeq(per_library_items)
          /\ \A i \in 1..Len(per_library_items) :
                per_library_items[i]
                   = Len(SelectSeq(DataRows, LAMBDA row : row[Col("library_key")] = ToString(i)))
          /\ pc = "for_item" => library_items = per_library_items[lib]
          /\ returned # PyNone =>
                /\ csvfile.state = "closed"
                /\ Said("Total items exported") = << [msg |-> "Total items exported",
                                                      n |-> Len(DataRows)] >>)
    /\ [][/\ total_items' >= total_items
          /\ Len(per_library_items') >= Len(per_library_items)
          /\ \A i \in 1..Len(per_library_items) :
                per_library_items'[i] >= per_library_items[i]
          /\ lib' = lib => library_items' >= library_items]_vars

\* the run over the two long libraries has ended: every third item of the
\* first failed, and the rows of both are in the file
C9_Witness ==
    /\ returned # PyNone
    /\ plex \in BulkSources
    /\ per_library_items = << BulkLen - BulkLen \div 3, PROGRESS_EVERY + MaxItems >>
    /\ total_items = BulkLen - BulkLen \div 3 + PROGRESS_EVERY + MaxItems
    /\ Len(csvfile.lines) = total_items + 1
    /\ Len(Said("Error processing item")) = BulkLen \div 3

(***************************************************************************)
(* C10                                                                     *)
(***************************************************************************)
\* the printed lines since the current library was announced
RECURSIVE SinceAnnounced(_)
SinceAnnounced(out) ==
    IF out = << >> \/ out[Len(out)].msg = "Processing library" THEN << >>
    ELSE Append(SinceAnnounced(SubSeq(out, 1, Len(out) - 1)), out[Len(out)])

\* the progress markers among them
Markers == SelectSeq(SinceAnnounced(stdout), LAMBDA line : line.msg = "Processed")

\* C10: a progress marker is printed exactly by the steps that bring the count
\* of the library to a positive multiple of 100; the count starts at 0 for
\* every library and a failed item does not advance it; a library of k
\* successful items has printed floor(k / 100) markers
C10_Progress ==
    /\ [][/\ Len(Said("Processed")') = Len(Said("Processed")) + 1
             <=> /\ ItemStep /\ Wrote
                 /\ library_items' % 100 = 0
                 /\ library_items' > 0
          /\ Len(Said("Processed")') # Len(Said("Processed")) =>
                stdout'[Len(stdout')] = [msg |-> "Processed", n |-> library_items',
                                         title |-> libraries[lib].title]
          /\ (ItemStep /\ ~Wrote) => library_items' = library_items
          /\ (ItemStep /\ Wrote) => library_items' = library_items + 1
          /\ lib' # lib => (pc' = "for_item" => library_items' = 0)]_vars
    /\ [](/\ pc = "for_item" =>
                /\ Len(Markers) = library_items \div 100
                /\ \A i \in 1..Len(Markers) : Markers[i].n = 100 * i
          /\ (stdout # << >> /\ stdout[Len(stdout)].msg = "Completed") =>
                LET done == SubSeq(stdout, 1, Len(stdout) - 1)
                IN  Len(SelectSeq(SinceAnnounced(done), LAMBDA line : line.msg = "Processed"))
                       = stdout[Len(stdout)].n \div 100)

\* in a library where items failed, the count has reached 200 and the second
\* marker is the last line printed
C10_Witness ==
    /\ pc = "for_item"
    /\ library_items = 200
    /\ idx > 200
    /\ Len(Markers) = 2
    /\ stdout[Len(stdout)] = [msg |-> "Processed", n |-> 200, title |-> PyStr("Movies")]


(***************************************************************************)
(* C1                                                                      *)
(***************************************************************************)
\* C1: a turn of the item loop that fails writes no row, leaves library_items
\* and total_items as they are, prints the failure of the item, and the loop
\* goes on with the next item of the same library
C1_ItemFailureIsolated ==
    [][ (ItemStep /\ ~Wrote) =>
          /\ csvfile' = csvfile
          /\ library_items' = library_items
          /\ total_items' = total_items
          /\ Len(Said("Error processing item")') = Len(Said("Error processing item")) + 1
          /\ pc' = "for_item"
          /\ lib' = lib
          /\ idx' = idx + 1
      ]_vars

(***************************************************************************)
(* C4                                                                      *)
(***************************************************************************)
\* the option was given on the command line
Supplied(option) == option # PyNone

\* C4: the items command calls the data source only when exactly one of
\* --library-key and --library-name was given; given both or neither it prints
\* an error and returns without a call
C4_ItemsExactlyOne ==
    program = "items" =>
        /\ calls # << >> => (Supplied(library_key) # Supplied(library_name))
        /\ (pc # "items" /\ Supplied(library_key) = Supplied(library_name)) =>
              /\ calls = << >>
              /\ pc = "cmd_returned"
              /\ stdout # << >>

(***************************************************************************)
(* C5                                                                      *)
(***************************************************************************)
\* items with one field that cannot be extracted
MalformedField ==
    { [BaseItem EXCEPT !.genres = PyNone], [BaseItem EXCEPT !.directors = PyNone],
      [BaseItem EXCEPT !.roles = PyNone], [BaseItem EXCEPT !.duration = PyStr("90")],
      [BaseItem EXCEPT !.summary = PyInt(5)] }

\* C5: an item one field of which cannot be extracted is written and counted,
\* that field at its default and every other field as it is
C5_FieldFailureDefaults ==
    [][ (ItemStep /\ TheItem \in MalformedField) =>
          /\ Wrote
          /\ library_items' = library_items + 1
          /\ total_items' = total_items + 1
          /\ \E c \in {Col("genres"), Col("directors"), Col("actors"),
                       Col("duration_minutes"), Col("summary")} :
                TheLine[c] = "" /\ SameButFor(TheLine, lib, {c})
      ]_vars


(***************************************************************************)
(* C2                                                                      *)
(***************************************************************************)
\* a is a prefix of b
IsPrefix(a, b) == Len(a) <= Len(b) /\ SubSeq(b, 1, Len(a)) = a

\* the titles of the rows of library number i, in the order written
TitlesWritten(i) ==
    LET rows == SelectSeq(DataRows, LAMBDA row : row[Col("library_key")] = ToString(i))
    IN  [k \in 1..Len(rows) |-> rows[k][Col("title")]]

\* the titles of the items of ItemPool that can be written
TitlesWritable(its) ==
    LET good == SelectSeq(its, LAMBDA item : item \in {GoodItem, NoSizeItem})
    IN  [k \in 1..Len(good) |-> good[k].title.s]

\* the items of a library that its loop comes to: all of them, or those up to
\* the first one the report of whose failure fails too
Reached(its) ==
    LET last == {k \in 1..Len(its) : ~HandlerTitle(its[k]).ok}
    IN  IF last = {} THEN its
        ELSE SubSeq(its, 1, (CHOOSE k \in last : \A j \in last : k <= j) - 1)

\* the run has ended and returned the name of the file
Finished == returned = PyStr(Filename) /\ csvfile.state = "closed"

\* the run is in the loops of the export
InLoops == pc \in {"for_library", "for_item"}

\* this step takes the loops forward: to the next library, to the next item,
\* out of the items of the library, or to Finished
Forward ==
    \/ lib' = lib + 1 /\ lib' <= Len(libraries)
    \/ lib' = lib /\ pc = "for_item" /\ pc' = "for_item" /\ idx' = idx + 1 /\ idx' <= Len(items)
    \/ lib' = lib /\ pc = "for_item" /\ pc' = "for_library"
    \/ lib' = lib /\ lib = Len(libraries) /\ pc = "for_library" /\ Finished'

\* the loops neither stop nor turn back, so that they end, and end Finished:
\* between libraries the next is fetched, or its fetch fails, or the run
\* finishes; within a library there is a next item to process (ItemStep is
\* all that ProcessItem asks for) or the library is completed
ReachesFinished ==
    /\ [](pc = "for_library" =>
              ENABLED FetchLibrary \/ ENABLED FetchLibraryFails \/ ENABLED Finish)
    /\ [](pc = "for_item" => ItemStep \/ ENABLED LibraryDone)
    /\ [][InLoops => Forward]_vars

\* C2: the step on a library whose fetch fails prints the failure, leaves the
\* file and the counters as they are and goes on to the next library; no
\* step removes a line of the file; a run in which a fetch failed ends
\* Finished with the rows of every other library in the file (those of a
\* library stop only where the title of a failed item cannot be printed)
C2_LibraryFailureSkipped ==
    /\ [][ (pc = "for_library" /\ lib < Len(libraries) /\ plex[lib + 1].fetch = "raise") =>
              /\ csvfile' = csvfile
              /\ total_items' = total_items
              /\ lib' = lib + 1
              /\ pc' = "for_library"
              /\ stdout'[Len(stdout')] = [msg |-> "Error processing library",
                                          title |-> plex[lib + 1].title]
         ]_vars
    /\ [][IsPrefix(csvfile.lines, csvfile'.lines)]_vars
    /\ []((Finished /\ plex \in SmallSources) =>
             \A i \in 1..Len(plex) :
                 plex[i].fetch = "ok"
                     => TitlesWritten(i) = TitlesWritable(Reached(plex[i].items)))
    /\ ReachesFinished

\* the fetch of the second of two libraries failed after a row of the first
\* was written, and the run has ended with that row
C2_Witness ==
    /\ Finished
    /\ Len(plex) = 2
    /\ plex[2].fetch = "raise"
    /\ Len(plex[1].items) = 2
    /\ Len(DataRows) = 2
    /\ Said("Error processing library") = << [msg |-> "Error processing library",
                                              title |-> PyStr("TV Shows")] >>

(***************************************************************************)
(* C3                                                                      *)
(***************************************************************************)
\* this step ends the export run with an exception
FatalStep == program # "items" /\ pc' \in {"main_failed", "raised"} /\ pc' # pc

\* C3 as claimed: only a failure of the enumeration of the libraries is fatal,
\* and it leaves no file
C3_OnlyEnumerationFatal ==
    [][ FatalStep =>
          /\ pc \in {"main", "export"}
          /\ csvfile'.state = "none"
          /\ csvfile'.lines = << >>
      ]_vars

\* C3 as it holds: a failure of the enumeration of the libraries is fatal and
\* leaves the file neither opened nor created; a failure to open the file or
\* to write the header is fatal too, and no header or row is in the file; no
\* other failure is fatal: once the header is written the run ends Finished
C3_FatalBeforeLoop ==
    /\ [][ FatalStep =>
              /\ pc \in {"main", "export", "open"}
              /\ pc \in {"main", "export"} => csvfile'.state = "none"
              /\ csvfile'.lines = << >>
         ]_vars
    /\ []((program # "items" /\ pc \in {"main_failed", "raised"}) =>
              /\ csvfile.lines = << >>
              /\ returned = PyNone)
    /\ ReachesFinished

\* main listed the libraries, the enumeration in the export then failed: no
\* file was created
C3_Witness ==
    /\ pc = "main_failed"
    /\ Said("Key") # << >>
    /\ per_library_items = << >>
    /\ csvfile = [state |-> "none", lines |-> << >>]

=============================================================================
